---- MODULE Spec2Model ----
(***************************************************************************)
(* Quiz generator (src/app.py, src/utils.py): the bounded-retry question   *)
(* acquisition of QuestionGenerator and the Streamlit session of           *)
(* QuizManager driven by main().                                           *)
(*                                                                         *)
(* A Python str is the sequence of its code points.  One script run of     *)
(* main() is one action, except that the run started by the Generate       *)
(* button is split at each blocking call of the external text-generation   *)
(* capability (self.llm.invoke): every such call is one Invoke step.       *)
(***************************************************************************)
EXTENDS Integers, Sequences, FiniteSets, TLC

VARIABLES
    questions,        \* QuizManager.questions
    user_answers,     \* QuizManager.user_answers
    results,          \* QuizManager.results
    quiz_generated,   \* st.session_state.quiz_generated
    quiz_submitted,   \* st.session_state.quiz_submitted
    pc,               \* "idle": waiting for a UI event; "generating": inside generate_questions
    question_type,    \* the question_type argument of the last generate_questions call
    num_questions,    \* the num_questions argument of the last generate_questions call
    remaining,        \* iterations of the loop of generate_questions still to run
    attempt,          \* loop variable of the retry loop of the running acquisition
    widget,           \* value each answer input of the page currently holds
    invocations,      \* history: capability calls made by the current/last acquisition
    acqStatus,        \* history: "none" | "running" | "returned" | "raised"
    acqResult,        \* history: what the last finished acquisition returned
    lastResp,         \* history: what the capability answered to the last call
    lastEvent,        \* history: the UI event of the last script run
    evals,            \* history: evaluate_quiz executions since generate_questions began
    dirty,            \* history: an answer was edited since the last evaluate_quiz
    discarded,        \* history: the last run was a Generate press that found a quiz
    between           \* history: the last run graded again; what lay between the gradings

vars == <<questions, user_answers, results, quiz_generated, quiz_submitted, pc,
          question_type, remaining, attempt, widget, invocations, acqStatus,
          acqResult, lastResp, lastEvent, evals, dirty, num_questions, discarded,
          between>>

(***************************************************************************)
(* Bounds of the model.                                                    *)
(***************************************************************************)
MaxQuestions == 2   \* num_questions ranges over 1..MaxQuestions (the page allows 1..20)
MaxRenders == 4     \* renders of the quiz (attempt_quiz calls) per generated quiz
MaxLen == 7         \* longest question text the capability returns in SpecAcq

(***************************************************************************)
(* Python str operations used by the code.                                 *)
(***************************************************************************)
E == <<>>
\* '___' and '_____' (95 is the underscore)
M3 == <<95, 95, 95>>
M5 == <<95, 95, 95, 95, 95>>

Range(s) == {s[i] : i \in 1..Len(s)}

\* s[i:].startswith(p), i counted from 1
StartsWithAt(s, p, i) ==
    /\ i + Len(p) - 1 <= Len(s)
    /\ \A k \in 1..Len(p) : s[i + k - 1] = p[k]

\* p in s
str_contains(s, p) == \E i \in 1..(Len(s) - Len(p) + 1) : StartsWithAt(s, p, i)

\* s.replace(old, new) for a non-empty old: non-overlapping matches, left to right
RECURSIVE ReplaceFrom(_, _, _, _)
ReplaceFrom(s, old, new, i) ==
    IF i > Len(s) THEN <<>>
    ELSE IF StartsWithAt(s, old, i)
         THEN new \o ReplaceFrom(s, old, new, i + Len(old))
         ELSE <<s[i]>> \o ReplaceFrom(s, old, new, i + 1)

\* the same, replacing the first match only (s.replace(old, new, 1))
RECURSIVE ReplaceFirstFrom(_, _, _, _)
ReplaceFirstFrom(s, old, new, i) ==
    IF i > Len(s) THEN <<>>
    ELSE IF StartsWithAt(s, old, i)
         THEN new \o SubSeq(s, i + Len(old), Len(s))
         ELSE <<s[i]>> \o ReplaceFirstFrom(s, old, new, i + 1)

str_replace_first(s, old, new) == ReplaceFirstFrom(s, old, new, 1)

str_replace(s, old, new) == ReplaceFrom(s, old, new, 1)

\* the code points str.strip() removes: those for which str.isspace() holds
Whitespace ==
    (9..13) \cup (28..32) \cup {133, 160, 5760} \cup (8192..8202)
        \cup {8232, 8233, 8239, 8287, 12288}

IsSpace(c) == c \in Whitespace

\* the simple lower-case mapping of the Unicode database of Python 3.11, as
\* <<first, last, step, offset>>: code point c with first <= c <= last and
\* (c - first) % step = 0 maps to c + offset; every other code point but U+0130
\* maps to itself
LowerRanges ==
    {
      <<65, 90, 1, 32>>, <<192, 214, 1, 32>>, <<216, 222, 1, 32>>, <<256, 302, 2, 1>>,
      <<306, 310, 2, 1>>, <<313, 327, 2, 1>>, <<330, 374, 2, 1>>, <<376, 376, 1, -121>>,
      <<377, 381, 2, 1>>, <<385, 385, 1, 210>>, <<386, 388, 2, 1>>, <<390, 390, 1, 206>>,
      <<391, 391, 1, 1>>, <<393, 394, 1, 205>>, <<395, 395, 1, 1>>, <<398, 398, 1, 79>>,
      <<399, 399, 1, 202>>, <<400, 400, 1, 203>>, <<401, 401, 1, 1>>, <<403, 403, 1, 205>>,
      <<404, 404, 1, 207>>, <<406, 406, 1, 211>>, <<407, 407, 1, 209>>, <<408, 408, 1, 1>>,
      <<412, 412, 1, 211>>, <<413, 413, 1, 213>>, <<415, 415, 1, 214>>, <<416, 420, 2, 1>>,
      <<422, 422, 1, 218>>, <<423, 423, 1, 1>>, <<425, 425, 1, 218>>, <<428, 428, 1, 1>>,
      <<430, 430, 1, 218>>, <<431, 431, 1, 1>>, <<433, 434, 1, 217>>, <<435, 437, 2, 1>>,
      <<439, 439, 1, 219>>, <<440, 440, 1, 1>>, <<444, 444, 1, 1>>, <<452, 452, 1, 2>>,
      <<453, 453, 1, 1>>, <<455, 455, 1, 2>>, <<456, 456, 1, 1>>, <<458, 458, 1, 2>>,
      <<459, 475, 2, 1>>, <<478, 494, 2, 1>>, <<497, 497, 1, 2>>, <<498, 500, 2, 1>>,
      <<502, 502, 1, -97>>, <<503, 503, 1, -56>>, <<504, 542, 2, 1>>,
      <<544, 544, 1, -130>>, <<546, 562, 2, 1>>, <<570, 570, 1, 10795>>,
      <<571, 571, 1, 1>>, <<573, 573, 1, -163>>, <<574, 574, 1, 10792>>,
      <<577, 577, 1, 1>>, <<579, 579, 1, -195>>, <<580, 580, 1, 69>>, <<581, 581, 1, 71>>,
      <<582, 590, 2, 1>>, <<880, 882, 2, 1>>, <<886, 886, 1, 1>>, <<895, 895, 1, 116>>,
      <<902, 902, 1, 38>>, <<904, 906, 1, 37>>, <<908, 908, 1, 64>>, <<910, 911, 1, 63>>,
      <<913, 929, 1, 32>>, <<931, 939, 1, 32>>, <<975, 975, 1, 8>>, <<984, 1006, 2, 1>>,
      <<1012, 1012, 1, -60>>, <<1015, 1015, 1, 1>>, <<1017, 1017, 1, -7>>,
      <<1018, 1018, 1, 1>>, <<1021, 1023, 1, -130>>, <<1024, 1039, 1, 80>>,
      <<1040, 1071, 1, 32>>, <<1120, 1152, 2, 1>>, <<1162, 1214, 2, 1>>,
      <<1216, 1216, 1, 15>>, <<1217, 1229, 2, 1>>, <<1232, 1326, 2, 1>>,
      <<1329, 1366, 1, 48>>, <<4256, 4293, 1, 7264>>, <<4295, 4295, 1, 7264>>,
      <<4301, 4301, 1, 7264>>, <<5024, 5103, 1, 38864>>, <<5104, 5109, 1, 8>>,
      <<7312, 7354, 1, -3008>>, <<7357, 7359, 1, -3008>>, <<7680, 7828, 2, 1>>,
      <<7838, 7838, 1, -7615>>, <<7840, 7934, 2, 1>>, <<7944, 7951, 1, -8>>,
      <<7960, 7965, 1, -8>>, <<7976, 7983, 1, -8>>, <<7992, 7999, 1, -8>>,
      <<8008, 8013, 1, -8>>, <<8025, 8031, 2, -8>>, <<8040, 8047, 1, -8>>,
      <<8072, 8079, 1, -8>>, <<8088, 8095, 1, -8>>, <<8104, 8111, 1, -8>>,
      <<8120, 8121, 1, -8>>, <<8122, 8123, 1, -74>>, <<8124, 8124, 1, -9>>,
      <<8136, 8139, 1, -86>>, <<8140, 8140, 1, -9>>, <<8152, 8153, 1, -8>>,
      <<8154, 8155, 1, -100>>, <<8168, 8169, 1, -8>>, <<8170, 8171, 1, -112>>,
      <<8172, 8172, 1, -7>>, <<8184, 8185, 1, -128>>, <<8186, 8187, 1, -126>>,
      <<8188, 8188, 1, -9>>, <<8486, 8486, 1, -7517>>, <<8490, 8490, 1, -8383>>,
      <<8491, 8491, 1, -8262>>, <<8498, 8498, 1, 28>>, <<8544, 8559, 1, 16>>,
      <<8579, 8579, 1, 1>>, <<9398, 9423, 1, 26>>, <<11264, 11311, 1, 48>>,
      <<11360, 11360, 1, 1>>, <<11362, 11362, 1, -10743>>, <<11363, 11363, 1, -3814>>,
      <<11364, 11364, 1, -10727>>, <<11367, 11371, 2, 1>>, <<11373, 11373, 1, -10780>>,
      <<11374, 11374, 1, -10749>>, <<11375, 11375, 1, -10783>>,
      <<11376, 11376, 1, -10782>>, <<11378, 11378, 1, 1>>, <<11381, 11381, 1, 1>>,
      <<11390, 11391, 1, -10815>>, <<11392, 11490, 2, 1>>, <<11499, 11501, 2, 1>>,
      <<11506, 11506, 1, 1>>, <<42560, 42604, 2, 1>>, <<42624, 42650, 2, 1>>,
      <<42786, 42798, 2, 1>>, <<42802, 42862, 2, 1>>, <<42873, 42875, 2, 1>>,
      <<42877, 42877, 1, -35332>>, <<42878, 42886, 2, 1>>, <<42891, 42891, 1, 1>>,
      <<42893, 42893, 1, -42280>>, <<42896, 42898, 2, 1>>, <<42902, 42920, 2, 1>>,
      <<42922, 42922, 1, -42308>>, <<42923, 42923, 1, -42319>>,
      <<42924, 42924, 1, -42315>>, <<42925, 42925, 1, -42305>>,
      <<42926, 42926, 1, -42308>>, <<42928, 42928, 1, -42258>>,
      <<42929, 42929, 1, -42282>>, <<42930, 42930, 1, -42261>>, <<42931, 42931, 1, 928>>,
      <<42932, 42946, 2, 1>>, <<42948, 42948, 1, -48>>, <<42949, 42949, 1, -42307>>,
      <<42950, 42950, 1, -35384>>, <<42951, 42953, 2, 1>>, <<42960, 42960, 1, 1>>,
      <<42966, 42968, 2, 1>>, <<42997, 42997, 1, 1>>, <<65313, 65338, 1, 32>>,
      <<66560, 66599, 1, 40>>, <<66736, 66771, 1, 40>>, <<66928, 66938, 1, 39>>,
      <<66940, 66954, 1, 39>>, <<66956, 66962, 1, 39>>, <<66964, 66965, 1, 39>>,
      <<68736, 68786, 1, 64>>, <<71840, 71871, 1, 32>>, <<93760, 93791, 1, 32>>,
      <<125184, 125217, 1, 34>>
    }

\* the lower case of one code point other than capital sigma.  U+0130 lowers to
\* two code points
LowerChar(c) ==
    IF c = 304 THEN <<105, 775>>
    ELSE LET hits == {r \in LowerRanges : r[1] <= c /\ c <= r[2] /\ (c - r[1]) % r[3] = 0}
         IN  IF hits = {} THEN <<c>> ELSE <<c + (CHOOSE r \in hits : TRUE)[4]>>

\* the code points with the Unicode property Cased, as <<first, last>>
CasedRanges ==
    {
      <<65, 90>>, <<97, 122>>, <<170, 170>>, <<181, 181>>, <<186, 186>>, <<192, 214>>,
      <<216, 246>>, <<248, 442>>, <<444, 447>>, <<452, 659>>, <<661, 696>>, <<704, 705>>,
      <<736, 740>>, <<837, 837>>, <<880, 883>>, <<886, 887>>, <<890, 893>>, <<895, 895>>,
      <<902, 902>>, <<904, 906>>, <<908, 908>>, <<910, 929>>, <<931, 1013>>, <<1015,
      1153>>, <<1162, 1327>>, <<1329, 1366>>, <<1376, 1416>>, <<4256, 4293>>, <<4295,
      4295>>, <<4301, 4301>>, <<4304, 4346>>, <<4349, 4351>>, <<5024, 5109>>, <<5112,
      5117>>, <<7296, 7304>>, <<7312, 7354>>, <<7357, 7359>>, <<7424, 7615>>, <<7680,
      7957>>, <<7960, 7965>>, <<7968, 8005>>, <<8008, 8013>>, <<8016, 8023>>, <<8025,
      8025>>, <<8027, 8027>>, <<8029, 8029>>, <<8031, 8061>>, <<8064, 8116>>, <<8118,
      8124>>, <<8126, 8126>>, <<8130, 8132>>, <<8134, 8140>>, <<8144, 8147>>, <<8150,
      8155>>, <<8160, 8172>>, <<8178, 8180>>, <<8182, 8188>>, <<8305, 8305>>, <<8319,
      8319>>, <<8336, 8348>>, <<8450, 8450>>, <<8455, 8455>>, <<8458, 8467>>, <<8469,
      8469>>, <<8473, 8477>>, <<8484, 8484>>, <<8486, 8486>>, <<8488, 8488>>, <<8490,
      8493>>, <<8495, 8500>>, <<8505, 8505>>, <<8508, 8511>>, <<8517, 8521>>, <<8526,
      8526>>, <<8544, 8575>>, <<8579, 8580>>, <<9398, 9449>>, <<11264, 11492>>, <<11499,
      11502>>, <<11506, 11507>>, <<11520, 11557>>, <<11559, 11559>>, <<11565, 11565>>,
      <<42560, 42605>>, <<42624, 42653>>, <<42786, 42887>>, <<42891, 42894>>, <<42896,
      42954>>, <<42960, 42961>>, <<42963, 42963>>, <<42965, 42969>>, <<42997, 42998>>,
      <<43000, 43002>>, <<43824, 43866>>, <<43868, 43880>>, <<43888, 43967>>, <<64256,
      64262>>, <<64275, 64279>>, <<65313, 65338>>, <<65345, 65370>>, <<66560, 66639>>,
      <<66736, 66771>>, <<66776, 66811>>, <<66928, 66938>>, <<66940, 66954>>, <<66956,
      66962>>, <<66964, 66965>>, <<66967, 66977>>, <<66979, 66993>>, <<66995, 67001>>,
      <<67003, 67004>>, <<67456, 67456>>, <<67459, 67461>>, <<67463, 67504>>, <<67506,
      67514>>, <<68736, 68786>>, <<68800, 68850>>, <<71840, 71903>>, <<93760, 93823>>,
      <<119808, 119892>>, <<119894, 119964>>, <<119966, 119967>>, <<119970, 119970>>,
      <<119973, 119974>>, <<119977, 119980>>, <<119982, 119993>>, <<119995, 119995>>,
      <<119997, 120003>>, <<120005, 120069>>, <<120071, 120074>>, <<120077, 120084>>,
      <<120086, 120092>>, <<120094, 120121>>, <<120123, 120126>>, <<120128, 120132>>,
      <<120134, 120134>>, <<120138, 120144>>, <<120146, 120485>>, <<120488, 120512>>,
      <<120514, 120538>>, <<120540, 120570>>, <<120572, 120596>>, <<120598, 120628>>,
      <<120630, 120654>>, <<120656, 120686>>, <<120688, 120712>>, <<120714, 120744>>,
      <<120746, 120770>>, <<120772, 120779>>, <<122624, 122633>>, <<122635, 122654>>,
      <<125184, 125251>>, <<127280, 127305>>, <<127312, 127337>>, <<127344, 127369>>
    }

\* the code points with the Unicode property Case_Ignorable, as <<first, last>>
CaseIgnorableRanges ==
    {
      <<39, 39>>, <<46, 46>>, <<58, 58>>, <<94, 94>>, <<96, 96>>, <<168, 168>>, <<173,
      173>>, <<175, 175>>, <<180, 180>>, <<183, 184>>, <<688, 879>>, <<884, 885>>, <<890,
      890>>, <<900, 901>>, <<903, 903>>, <<1155, 1161>>, <<1369, 1369>>, <<1375, 1375>>,
      <<1425, 1469>>, <<1471, 1471>>, <<1473, 1474>>, <<1476, 1477>>, <<1479, 1479>>,
      <<1524, 1524>>, <<1536, 1541>>, <<1552, 1562>>, <<1564, 1564>>, <<1600, 1600>>,
      <<1611, 1631>>, <<1648, 1648>>, <<1750, 1757>>, <<1759, 1768>>, <<1770, 1773>>,
      <<1807, 1807>>, <<1809, 1809>>, <<1840, 1866>>, <<1958, 1968>>, <<2027, 2037>>,
      <<2042, 2042>>, <<2045, 2045>>, <<2070, 2093>>, <<2137, 2139>>, <<2184, 2184>>,
      <<2192, 2193>>, <<2200, 2207>>, <<2249, 2306>>, <<2362, 2362>>, <<2364, 2364>>,
      <<2369, 2376>>, <<2381, 2381>>, <<2385, 2391>>, <<2402, 2403>>, <<2417, 2417>>,
      <<2433, 2433>>, <<2492, 2492>>, <<2497, 2500>>, <<2509, 2509>>, <<2530, 2531>>,
      <<2558, 2558>>, <<2561, 2562>>, <<2620, 2620>>, <<2625, 2626>>, <<2631, 2632>>,
      <<2635, 2637>>, <<2641, 2641>>, <<2672, 2673>>, <<2677, 2677>>, <<2689, 2690>>,
      <<2748, 2748>>, <<2753, 2757>>, <<2759, 2760>>, <<2765, 2765>>, <<2786, 2787>>,
      <<2810, 2815>>, <<2817, 2817>>, <<2876, 2876>>, <<2879, 2879>>, <<2881, 2884>>,
      <<2893, 2893>>, <<2901, 2902>>, <<2914, 2915>>, <<2946, 2946>>, <<3008, 3008>>,
      <<3021, 3021>>, <<3072, 3072>>, <<3076, 3076>>, <<3132, 3132>>, <<3134, 3136>>,
      <<3142, 3144>>, <<3146, 3149>>, <<3157, 3158>>, <<3170, 3171>>, <<3201, 3201>>,
      <<3260, 3260>>, <<3263, 3263>>, <<3270, 3270>>, <<3276, 3277>>, <<3298, 3299>>,
      <<3328, 3329>>, <<3387, 3388>>, <<3393, 3396>>, <<3405, 3405>>, <<3426, 3427>>,
      <<3457, 3457>>, <<3530, 3530>>, <<3538, 3540>>, <<3542, 3542>>, <<3633, 3633>>,
      <<3636, 3642>>, <<3654, 3662>>, <<3761, 3761>>, <<3764, 3772>>, <<3782, 3782>>,
      <<3784, 3789>>, <<3864, 3865>>, <<3893, 3893>>, <<3895, 3895>>, <<3897, 3897>>,
      <<3953, 3966>>, <<3968, 3972>>, <<3974, 3975>>, <<3981, 3991>>, <<3993, 4028>>,
      <<4038, 4038>>, <<4141, 4144>>, <<4146, 4151>>, <<4153, 4154>>, <<4157, 4158>>,
      <<4184, 4185>>, <<4190, 4192>>, <<4209, 4212>>, <<4226, 4226>>, <<4229, 4230>>,
      <<4237, 4237>>, <<4253, 4253>>, <<4348, 4348>>, <<4957, 4959>>, <<5906, 5908>>,
      <<5938, 5939>>, <<5970, 5971>>, <<6002, 6003>>, <<6068, 6069>>, <<6071, 6077>>,
      <<6086, 6086>>, <<6089, 6099>>, <<6103, 6103>>, <<6109, 6109>>, <<6155, 6159>>,
      <<6211, 6211>>, <<6277, 6278>>, <<6313, 6313>>, <<6432, 6434>>, <<6439, 6440>>,
      <<6450, 6450>>, <<6457, 6459>>, <<6679, 6680>>, <<6683, 6683>>, <<6742, 6742>>,
      <<6744, 6750>>, <<6752, 6752>>, <<6754, 6754>>, <<6757, 6764>>, <<6771, 6780>>,
      <<6783, 6783>>, <<6823, 6823>>, <<6832, 6862>>, <<6912, 6915>>, <<6964, 6964>>,
      <<6966, 6970>>, <<6972, 6972>>, <<6978, 6978>>, <<7019, 7027>>, <<7040, 7041>>,
      <<7074, 7077>>, <<7080, 7081>>, <<7083, 7085>>, <<7142, 7142>>, <<7144, 7145>>,
      <<7149, 7149>>, <<7151, 7153>>, <<7212, 7219>>, <<7222, 7223>>, <<7288, 7293>>,
      <<7376, 7378>>, <<7380, 7392>>, <<7394, 7400>>, <<7405, 7405>>, <<7412, 7412>>,
      <<7416, 7417>>, <<7468, 7530>>, <<7544, 7544>>, <<7579, 7679>>, <<8125, 8125>>,
      <<8127, 8129>>, <<8141, 8143>>, <<8157, 8159>>, <<8173, 8175>>, <<8189, 8190>>,
      <<8203, 8207>>, <<8216, 8217>>, <<8228, 8228>>, <<8231, 8231>>, <<8234, 8238>>,
      <<8288, 8292>>, <<8294, 8303>>, <<8305, 8305>>, <<8319, 8319>>, <<8336, 8348>>,
      <<8400, 8432>>, <<11388, 11389>>, <<11503, 11505>>, <<11631, 11631>>, <<11647,
      11647>>, <<11744, 11775>>, <<11823, 11823>>, <<12293, 12293>>, <<12330, 12333>>,
      <<12337, 12341>>, <<12347, 12347>>, <<12441, 12446>>, <<12540, 12542>>, <<40981,
      40981>>, <<42232, 42237>>, <<42508, 42508>>, <<42607, 42610>>, <<42612, 42621>>,
      <<42623, 42623>>, <<42652, 42655>>, <<42736, 42737>>, <<42752, 42785>>, <<42864,
      42864>>, <<42888, 42890>>, <<42994, 42996>>, <<43000, 43001>>, <<43010, 43010>>,
      <<43014, 43014>>, <<43019, 43019>>, <<43045, 43046>>, <<43052, 43052>>, <<43204,
      43205>>, <<43232, 43249>>, <<43263, 43263>>, <<43302, 43309>>, <<43335, 43345>>,
      <<43392, 43394>>, <<43443, 43443>>, <<43446, 43449>>, <<43452, 43453>>, <<43471,
      43471>>, <<43493, 43494>>, <<43561, 43566>>, <<43569, 43570>>, <<43573, 43574>>,
      <<43587, 43587>>, <<43596, 43596>>, <<43632, 43632>>, <<43644, 43644>>, <<43696,
      43696>>, <<43698, 43700>>, <<43703, 43704>>, <<43710, 43711>>, <<43713, 43713>>,
      <<43741, 43741>>, <<43756, 43757>>, <<43763, 43764>>, <<43766, 43766>>, <<43867,
      43871>>, <<43881, 43883>>, <<44005, 44005>>, <<44008, 44008>>, <<44013, 44013>>,
      <<64286, 64286>>, <<64434, 64450>>, <<65024, 65039>>, <<65043, 65043>>, <<65056,
      65071>>, <<65106, 65106>>, <<65109, 65109>>, <<65279, 65279>>, <<65287, 65287>>,
      <<65294, 65294>>, <<65306, 65306>>, <<65342, 65342>>, <<65344, 65344>>, <<65392,
      65392>>, <<65438, 65439>>, <<65507, 65507>>, <<65529, 65531>>, <<66045, 66045>>,
      <<66272, 66272>>, <<66422, 66426>>, <<67456, 67461>>, <<67463, 67504>>, <<67506,
      67514>>, <<68097, 68099>>, <<68101, 68102>>, <<68108, 68111>>, <<68152, 68154>>,
      <<68159, 68159>>, <<68325, 68326>>, <<68900, 68903>>, <<69291, 69292>>, <<69446,
      69456>>, <<69506, 69509>>, <<69633, 69633>>, <<69688, 69702>>, <<69744, 69744>>,
      <<69747, 69748>>, <<69759, 69761>>, <<69811, 69814>>, <<69817, 69818>>, <<69821,
      69821>>, <<69826, 69826>>, <<69837, 69837>>, <<69888, 69890>>, <<69927, 69931>>,
      <<69933, 69940>>, <<70003, 70003>>, <<70016, 70017>>, <<70070, 70078>>, <<70089,
      70092>>, <<70095, 70095>>, <<70191, 70193>>, <<70196, 70196>>, <<70198, 70199>>,
      <<70206, 70206>>, <<70367, 70367>>, <<70371, 70378>>, <<70400, 70401>>, <<70459,
      70460>>, <<70464, 70464>>, <<70502, 70508>>, <<70512, 70516>>, <<70712, 70719>>,
      <<70722, 70724>>, <<70726, 70726>>, <<70750, 70750>>, <<70835, 70840>>, <<70842,
      70842>>, <<70847, 70848>>, <<70850, 70851>>, <<71090, 71093>>, <<71100, 71101>>,
      <<71103, 71104>>, <<71132, 71133>>, <<71219, 71226>>, <<71229, 71229>>, <<71231,
      71232>>, <<71339, 71339>>, <<71341, 71341>>, <<71344, 71349>>, <<71351, 71351>>,
      <<71453, 71455>>, <<71458, 71461>>, <<71463, 71467>>, <<71727, 71735>>, <<71737,
      71738>>, <<71995, 71996>>, <<71998, 71998>>, <<72003, 72003>>, <<72148, 72151>>,
      <<72154, 72155>>, <<72160, 72160>>, <<72193, 72202>>, <<72243, 72248>>, <<72251,
      72254>>, <<72263, 72263>>, <<72273, 72278>>, <<72281, 72283>>, <<72330, 72342>>,
      <<72344, 72345>>, <<72752, 72758>>, <<72760, 72765>>, <<72767, 72767>>, <<72850,
      72871>>, <<72874, 72880>>, <<72882, 72883>>, <<72885, 72886>>, <<73009, 73014>>,
      <<73018, 73018>>, <<73020, 73021>>, <<73023, 73029>>, <<73031, 73031>>, <<73104,
      73105>>, <<73109, 73109>>, <<73111, 73111>>, <<73459, 73460>>, <<78896, 78904>>,
      <<92912, 92916>>, <<92976, 92982>>, <<92992, 92995>>, <<94031, 94031>>, <<94095,
      94111>>, <<94176, 94177>>, <<94179, 94180>>, <<110576, 110579>>, <<110581, 110587>>,
      <<110589, 110590>>, <<113821, 113822>>, <<113824, 113827>>, <<118528, 118573>>,
      <<118576, 118598>>, <<119143, 119145>>, <<119155, 119170>>, <<119173, 119179>>,
      <<119210, 119213>>, <<119362, 119364>>, <<121344, 121398>>, <<121403, 121452>>,
      <<121461, 121461>>, <<121476, 121476>>, <<121499, 121503>>, <<121505, 121519>>,
      <<122880, 122886>>, <<122888, 122904>>, <<122907, 122913>>, <<122915, 122916>>,
      <<122918, 122922>>, <<123184, 123197>>, <<123566, 123566>>, <<123628, 123631>>,
      <<125136, 125142>>, <<125252, 125259>>, <<127995, 127999>>, <<917505, 917505>>,
      <<917536, 917631>>, <<917760, 917999>>
    }

IsCased(c) == \E r \in CasedRanges : r[1] <= c /\ c <= r[2]
IsCaseIgnorable(c) == \E r \in CaseIgnorableRanges : r[1] <= c /\ c <= r[2]

\* the lower case of the capital sigma (U+03A3) at s[i]: the final form U+03C2
\* when the nearest code point before it that is not case-ignorable is cased
\* and the nearest one after it that is not case-ignorable is not cased (or
\* there is none); U+03C3 otherwise
handle_capital_sigma(s, i) ==
    LET before == {j \in 1..(i - 1) : ~IsCaseIgnorable(s[j])}
        after == {j \in (i + 1)..Len(s) : ~IsCaseIgnorable(s[j])}
        final_sigma ==
            /\ before # {}
            /\ IsCased(s[CHOOSE j \in before : \A k \in before : k <= j])
            /\ \/ after = {}
               \/ ~IsCased(s[CHOOSE j \in after : \A k \in after : j <= k])
    IN  IF final_sigma THEN 962 ELSE 963

\* s.lower()
RECURSIVE LowerFrom(_, _)
LowerFrom(s, i) ==
    IF i > Len(s) THEN <<>>
    ELSE (IF s[i] = 931 THEN <<handle_capital_sigma(s, i)>> ELSE LowerChar(s[i]))
            \o LowerFrom(s, i + 1)

str_lower(s) == LowerFrom(s, 1)

\* s.strip()
RECURSIVE str_lstrip(_)
str_lstrip(s) == IF s # <<>> /\ IsSpace(Head(s)) THEN str_lstrip(Tail(s)) ELSE s

RECURSIVE str_rstrip(_)
str_rstrip(s) ==
    IF s # <<>> /\ IsSpace(s[Len(s)]) THEN str_rstrip(SubSeq(s, 1, Len(s) - 1)) ELSE s

str_strip(s) == str_rstrip(str_lstrip(s))


Min(a, b) == IF a <= b THEN a ELSE b

(***************************************************************************)
(* What the external capability can answer to one call.                    *)
(*   status "error": self.llm.invoke raises (transport, auth, rate limit)  *)
(*   status "text" : the content is not JSON for the parser                *)
(*   status "json" : a JSON object of the MCQ shape or of the fill shape;  *)
(*                   its 'question' is a string or a dict, with or         *)
(*                   without a 'description' entry                         *)
(***************************************************************************)
\* a 'question' that is a str; one that is a dict with str keys and str values,
\* given as the sequence of its <<key, value>> entries (keys distinct)
Str(s) == [t |-> "str", v |-> s]
Dict(entries) == [t |-> "dict", v |-> entries]

TransportError == [status |-> "error"]
NotJson == [status |-> "text"]
McqJson(q, ops, ca) ==
    [status |-> "json", shape |-> "mcq", question |-> q, options |-> ops,
     correct_answer |-> ca]
FillJson(q, a) == [status |-> "json", shape |-> "fill", question |-> q, answer |-> a]

NoResp == [status |-> "none"]
NoQuestion == [none |-> TRUE]

\* n in hexadecimal, in lower case, padded with zeros to w digits
HexDigit(n) == IF n < 10 THEN 48 + n ELSE 87 + n
RECURSIVE Hex(_, _)
Hex(n, w) == IF w = 0 THEN <<>> ELSE Hex(n \div 16, w - 1) \o <<HexDigit(n % 16)>>

\* the code points for which str.isprintable() does not hold, as <<first, last>>
NonPrintableRanges ==
    {
      <<0, 31>>, <<127, 160>>, <<173, 173>>, <<888, 889>>, <<896, 899>>, <<907, 907>>,
      <<909, 909>>, <<930, 930>>, <<1328, 1328>>, <<1367, 1368>>, <<1419, 1420>>, <<1424,
      1424>>, <<1480, 1487>>, <<1515, 1518>>, <<1525, 1541>>, <<1564, 1564>>, <<1757,
      1757>>, <<1806, 1807>>, <<1867, 1868>>, <<1970, 1983>>, <<2043, 2044>>, <<2094,
      2095>>, <<2111, 2111>>, <<2140, 2141>>, <<2143, 2143>>, <<2155, 2159>>, <<2191,
      2199>>, <<2274, 2274>>, <<2436, 2436>>, <<2445, 2446>>, <<2449, 2450>>, <<2473,
      2473>>, <<2481, 2481>>, <<2483, 2485>>, <<2490, 2491>>, <<2501, 2502>>, <<2505,
      2506>>, <<2511, 2518>>, <<2520, 2523>>, <<2526, 2526>>, <<2532, 2533>>, <<2559,
      2560>>, <<2564, 2564>>, <<2571, 2574>>, <<2577, 2578>>, <<2601, 2601>>, <<2609,
      2609>>, <<2612, 2612>>, <<2615, 2615>>, <<2618, 2619>>, <<2621, 2621>>, <<2627,
      2630>>, <<2633, 2634>>, <<2638, 2640>>, <<2642, 2648>>, <<2653, 2653>>, <<2655,
      2661>>, <<2679, 2688>>, <<2692, 2692>>, <<2702, 2702>>, <<2706, 2706>>, <<2729,
      2729>>, <<2737, 2737>>, <<2740, 2740>>, <<2746, 2747>>, <<2758, 2758>>, <<2762,
      2762>>, <<2766, 2767>>, <<2769, 2783>>, <<2788, 2789>>, <<2802, 2808>>, <<2816,
      2816>>, <<2820, 2820>>, <<2829, 2830>>, <<2833, 2834>>, <<2857, 2857>>, <<2865,
      2865>>, <<2868, 2868>>, <<2874, 2875>>, <<2885, 2886>>, <<2889, 2890>>, <<2894,
      2900>>, <<2904, 2907>>, <<2910, 2910>>, <<2916, 2917>>, <<2936, 2945>>, <<2948,
      2948>>, <<2955, 2957>>, <<2961, 2961>>, <<2966, 2968>>, <<2971, 2971>>, <<2973,
      2973>>, <<2976, 2978>>, <<2981, 2983>>, <<2987, 2989>>, <<3002, 3005>>, <<3011,
      3013>>, <<3017, 3017>>, <<3022, 3023>>, <<3025, 3030>>, <<3032, 3045>>, <<3067,
      3071>>, <<3085, 3085>>, <<3089, 3089>>, <<3113, 3113>>, <<3130, 3131>>, <<3141,
      3141>>, <<3145, 3145>>, <<3150, 3156>>, <<3159, 3159>>, <<3163, 3164>>, <<3166,
      3167>>, <<3172, 3173>>, <<3184, 3190>>, <<3213, 3213>>, <<3217, 3217>>, <<3241,
      3241>>, <<3252, 3252>>, <<3258, 3259>>, <<3269, 3269>>, <<3273, 3273>>, <<3278,
      3284>>, <<3287, 3292>>, <<3295, 3295>>, <<3300, 3301>>, <<3312, 3312>>, <<3315,
      3327>>, <<3341, 3341>>, <<3345, 3345>>, <<3397, 3397>>, <<3401, 3401>>, <<3408,
      3411>>, <<3428, 3429>>, <<3456, 3456>>, <<3460, 3460>>, <<3479, 3481>>, <<3506,
      3506>>, <<3516, 3516>>, <<3518, 3519>>, <<3527, 3529>>, <<3531, 3534>>, <<3541,
      3541>>, <<3543, 3543>>, <<3552, 3557>>, <<3568, 3569>>, <<3573, 3584>>, <<3643,
      3646>>, <<3676, 3712>>, <<3715, 3715>>, <<3717, 3717>>, <<3723, 3723>>, <<3748,
      3748>>, <<3750, 3750>>, <<3774, 3775>>, <<3781, 3781>>, <<3783, 3783>>, <<3790,
      3791>>, <<3802, 3803>>, <<3808, 3839>>, <<3912, 3912>>, <<3949, 3952>>, <<3992,
      3992>>, <<4029, 4029>>, <<4045, 4045>>, <<4059, 4095>>, <<4294, 4294>>, <<4296,
      4300>>, <<4302, 4303>>, <<4681, 4681>>, <<4686, 4687>>, <<4695, 4695>>, <<4697,
      4697>>, <<4702, 4703>>, <<4745, 4745>>, <<4750, 4751>>, <<4785, 4785>>, <<4790,
      4791>>, <<4799, 4799>>, <<4801, 4801>>, <<4806, 4807>>, <<4823, 4823>>, <<4881,
      4881>>, <<4886, 4887>>, <<4955, 4956>>, <<4989, 4991>>, <<5018, 5023>>, <<5110,
      5111>>, <<5118, 5119>>, <<5760, 5760>>, <<5789, 5791>>, <<5881, 5887>>, <<5910,
      5918>>, <<5943, 5951>>, <<5972, 5983>>, <<5997, 5997>>, <<6001, 6001>>, <<6004,
      6015>>, <<6110, 6111>>, <<6122, 6127>>, <<6138, 6143>>, <<6158, 6158>>, <<6170,
      6175>>, <<6265, 6271>>, <<6315, 6319>>, <<6390, 6399>>, <<6431, 6431>>, <<6444,
      6447>>, <<6460, 6463>>, <<6465, 6467>>, <<6510, 6511>>, <<6517, 6527>>, <<6572,
      6575>>, <<6602, 6607>>, <<6619, 6621>>, <<6684, 6685>>, <<6751, 6751>>, <<6781,
      6782>>, <<6794, 6799>>, <<6810, 6815>>, <<6830, 6831>>, <<6863, 6911>>, <<6989,
      6991>>, <<7039, 7039>>, <<7156, 7163>>, <<7224, 7226>>, <<7242, 7244>>, <<7305,
      7311>>, <<7355, 7356>>, <<7368, 7375>>, <<7419, 7423>>, <<7958, 7959>>, <<7966,
      7967>>, <<8006, 8007>>, <<8014, 8015>>, <<8024, 8024>>, <<8026, 8026>>, <<8028,
      8028>>, <<8030, 8030>>, <<8062, 8063>>, <<8117, 8117>>, <<8133, 8133>>, <<8148,
      8149>>, <<8156, 8156>>, <<8176, 8177>>, <<8181, 8181>>, <<8191, 8207>>, <<8232,
      8239>>, <<8287, 8303>>, <<8306, 8307>>, <<8335, 8335>>, <<8349, 8351>>, <<8385,
      8399>>, <<8433, 8447>>, <<8588, 8591>>, <<9255, 9279>>, <<9291, 9311>>, <<11124,
      11125>>, <<11158, 11158>>, <<11508, 11512>>, <<11558, 11558>>, <<11560, 11564>>,
      <<11566, 11567>>, <<11624, 11630>>, <<11633, 11646>>, <<11671, 11679>>, <<11687,
      11687>>, <<11695, 11695>>, <<11703, 11703>>, <<11711, 11711>>, <<11719, 11719>>,
      <<11727, 11727>>, <<11735, 11735>>, <<11743, 11743>>, <<11870, 11903>>, <<11930,
      11930>>, <<12020, 12031>>, <<12246, 12271>>, <<12284, 12288>>, <<12352, 12352>>,
      <<12439, 12440>>, <<12544, 12548>>, <<12592, 12592>>, <<12687, 12687>>, <<12772,
      12783>>, <<12831, 12831>>, <<42125, 42127>>, <<42183, 42191>>, <<42540, 42559>>,
      <<42744, 42751>>, <<42955, 42959>>, <<42962, 42962>>, <<42964, 42964>>, <<42970,
      42993>>, <<43053, 43055>>, <<43066, 43071>>, <<43128, 43135>>, <<43206, 43213>>,
      <<43226, 43231>>, <<43348, 43358>>, <<43389, 43391>>, <<43470, 43470>>, <<43482,
      43485>>, <<43519, 43519>>, <<43575, 43583>>, <<43598, 43599>>, <<43610, 43611>>,
      <<43715, 43738>>, <<43767, 43776>>, <<43783, 43784>>, <<43791, 43792>>, <<43799,
      43807>>, <<43815, 43815>>, <<43823, 43823>>, <<43884, 43887>>, <<44014, 44015>>,
      <<44026, 44031>>, <<55204, 55215>>, <<55239, 55242>>, <<55292, 63743>>, <<64110,
      64111>>, <<64218, 64255>>, <<64263, 64274>>, <<64280, 64284>>, <<64311, 64311>>,
      <<64317, 64317>>, <<64319, 64319>>, <<64322, 64322>>, <<64325, 64325>>, <<64451,
      64466>>, <<64912, 64913>>, <<64968, 64974>>, <<64976, 65007>>, <<65050, 65055>>,
      <<65107, 65107>>, <<65127, 65127>>, <<65132, 65135>>, <<65141, 65141>>, <<65277,
      65280>>, <<65471, 65473>>, <<65480, 65481>>, <<65488, 65489>>, <<65496, 65497>>,
      <<65501, 65503>>, <<65511, 65511>>, <<65519, 65531>>, <<65534, 65535>>, <<65548,
      65548>>, <<65575, 65575>>, <<65595, 65595>>, <<65598, 65598>>, <<65614, 65615>>,
      <<65630, 65663>>, <<65787, 65791>>, <<65795, 65798>>, <<65844, 65846>>, <<65935,
      65935>>, <<65949, 65951>>, <<65953, 65999>>, <<66046, 66175>>, <<66205, 66207>>,
      <<66257, 66271>>, <<66300, 66303>>, <<66340, 66348>>, <<66379, 66383>>, <<66427,
      66431>>, <<66462, 66462>>, <<66500, 66503>>, <<66518, 66559>>, <<66718, 66719>>,
      <<66730, 66735>>, <<66772, 66775>>, <<66812, 66815>>, <<66856, 66863>>, <<66916,
      66926>>, <<66939, 66939>>, <<66955, 66955>>, <<66963, 66963>>, <<66966, 66966>>,
      <<66978, 66978>>, <<66994, 66994>>, <<67002, 67002>>, <<67005, 67071>>, <<67383,
      67391>>, <<67414, 67423>>, <<67432, 67455>>, <<67462, 67462>>, <<67505, 67505>>,
      <<67515, 67583>>, <<67590, 67591>>, <<67593, 67593>>, <<67638, 67638>>, <<67641,
      67643>>, <<67645, 67646>>, <<67670, 67670>>, <<67743, 67750>>, <<67760, 67807>>,
      <<67827, 67827>>, <<67830, 67834>>, <<67868, 67870>>, <<67898, 67902>>, <<67904,
      67967>>, <<68024, 68027>>, <<68048, 68049>>, <<68100, 68100>>, <<68103, 68107>>,
      <<68116, 68116>>, <<68120, 68120>>, <<68150, 68151>>, <<68155, 68158>>, <<68169,
      68175>>, <<68185, 68191>>, <<68256, 68287>>, <<68327, 68330>>, <<68343, 68351>>,
      <<68406, 68408>>, <<68438, 68439>>, <<68467, 68471>>, <<68498, 68504>>, <<68509,
      68520>>, <<68528, 68607>>, <<68681, 68735>>, <<68787, 68799>>, <<68851, 68857>>,
      <<68904, 68911>>, <<68922, 69215>>, <<69247, 69247>>, <<69290, 69290>>, <<69294,
      69295>>, <<69298, 69375>>, <<69416, 69423>>, <<69466, 69487>>, <<69514, 69551>>,
      <<69580, 69599>>, <<69623, 69631>>, <<69710, 69713>>, <<69750, 69758>>, <<69821,
      69821>>, <<69827, 69839>>, <<69865, 69871>>, <<69882, 69887>>, <<69941, 69941>>,
      <<69960, 69967>>, <<70007, 70015>>, <<70112, 70112>>, <<70133, 70143>>, <<70162,
      70162>>, <<70207, 70271>>, <<70279, 70279>>, <<70281, 70281>>, <<70286, 70286>>,
      <<70302, 70302>>, <<70314, 70319>>, <<70379, 70383>>, <<70394, 70399>>, <<70404,
      70404>>, <<70413, 70414>>, <<70417, 70418>>, <<70441, 70441>>, <<70449, 70449>>,
      <<70452, 70452>>, <<70458, 70458>>, <<70469, 70470>>, <<70473, 70474>>, <<70478,
      70479>>, <<70481, 70486>>, <<70488, 70492>>, <<70500, 70501>>, <<70509, 70511>>,
      <<70517, 70655>>, <<70748, 70748>>, <<70754, 70783>>, <<70856, 70863>>, <<70874,
      71039>>, <<71094, 71095>>, <<71134, 71167>>, <<71237, 71247>>, <<71258, 71263>>,
      <<71277, 71295>>, <<71354, 71359>>, <<71370, 71423>>, <<71451, 71452>>, <<71468,
      71471>>, <<71495, 71679>>, <<71740, 71839>>, <<71923, 71934>>, <<71943, 71944>>,
      <<71946, 71947>>, <<71956, 71956>>, <<71959, 71959>>, <<71990, 71990>>, <<71993,
      71994>>, <<72007, 72015>>, <<72026, 72095>>, <<72104, 72105>>, <<72152, 72153>>,
      <<72165, 72191>>, <<72264, 72271>>, <<72355, 72367>>, <<72441, 72703>>, <<72713,
      72713>>, <<72759, 72759>>, <<72774, 72783>>, <<72813, 72815>>, <<72848, 72849>>,
      <<72872, 72872>>, <<72887, 72959>>, <<72967, 72967>>, <<72970, 72970>>, <<73015,
      73017>>, <<73019, 73019>>, <<73022, 73022>>, <<73032, 73039>>, <<73050, 73055>>,
      <<73062, 73062>>, <<73065, 73065>>, <<73103, 73103>>, <<73106, 73106>>, <<73113,
      73119>>, <<73130, 73439>>, <<73465, 73647>>, <<73649, 73663>>, <<73714, 73726>>,
      <<74650, 74751>>, <<74863, 74863>>, <<74869, 74879>>, <<75076, 77711>>, <<77811,
      77823>>, <<78895, 82943>>, <<83527, 92159>>, <<92729, 92735>>, <<92767, 92767>>,
      <<92778, 92781>>, <<92863, 92863>>, <<92874, 92879>>, <<92910, 92911>>, <<92918,
      92927>>, <<92998, 93007>>, <<93018, 93018>>, <<93026, 93026>>, <<93048, 93052>>,
      <<93072, 93759>>, <<93851, 93951>>, <<94027, 94030>>, <<94088, 94094>>, <<94112,
      94175>>, <<94181, 94191>>, <<94194, 94207>>, <<100344, 100351>>, <<101590, 101631>>,
      <<101641, 110575>>, <<110580, 110580>>, <<110588, 110588>>, <<110591, 110591>>,
      <<110883, 110927>>, <<110931, 110947>>, <<110952, 110959>>, <<111356, 113663>>,
      <<113771, 113775>>, <<113789, 113791>>, <<113801, 113807>>, <<113818, 113819>>,
      <<113824, 118527>>, <<118574, 118575>>, <<118599, 118607>>, <<118724, 118783>>,
      <<119030, 119039>>, <<119079, 119080>>, <<119155, 119162>>, <<119275, 119295>>,
      <<119366, 119519>>, <<119540, 119551>>, <<119639, 119647>>, <<119673, 119807>>,
      <<119893, 119893>>, <<119965, 119965>>, <<119968, 119969>>, <<119971, 119972>>,
      <<119975, 119976>>, <<119981, 119981>>, <<119994, 119994>>, <<119996, 119996>>,
      <<120004, 120004>>, <<120070, 120070>>, <<120075, 120076>>, <<120085, 120085>>,
      <<120093, 120093>>, <<120122, 120122>>, <<120127, 120127>>, <<120133, 120133>>,
      <<120135, 120137>>, <<120145, 120145>>, <<120486, 120487>>, <<120780, 120781>>,
      <<121484, 121498>>, <<121504, 121504>>, <<121520, 122623>>, <<122655, 122879>>,
      <<122887, 122887>>, <<122905, 122906>>, <<122914, 122914>>, <<122917, 122917>>,
      <<122923, 123135>>, <<123181, 123183>>, <<123198, 123199>>, <<123210, 123213>>,
      <<123216, 123535>>, <<123567, 123583>>, <<123642, 123646>>, <<123648, 124895>>,
      <<124903, 124903>>, <<124908, 124908>>, <<124911, 124911>>, <<124927, 124927>>,
      <<125125, 125126>>, <<125143, 125183>>, <<125260, 125263>>, <<125274, 125277>>,
      <<125280, 126064>>, <<126133, 126208>>, <<126270, 126463>>, <<126468, 126468>>,
      <<126496, 126496>>, <<126499, 126499>>, <<126501, 126502>>, <<126504, 126504>>,
      <<126515, 126515>>, <<126520, 126520>>, <<126522, 126522>>, <<126524, 126529>>,
      <<126531, 126534>>, <<126536, 126536>>, <<126538, 126538>>, <<126540, 126540>>,
      <<126544, 126544>>, <<126547, 126547>>, <<126549, 126550>>, <<126552, 126552>>,
      <<126554, 126554>>, <<126556, 126556>>, <<126558, 126558>>, <<126560, 126560>>,
      <<126563, 126563>>, <<126565, 126566>>, <<126571, 126571>>, <<126579, 126579>>,
      <<126584, 126584>>, <<126589, 126589>>, <<126591, 126591>>, <<126602, 126602>>,
      <<126620, 126624>>, <<126628, 126628>>, <<126634, 126634>>, <<126652, 126703>>,
      <<126706, 126975>>, <<127020, 127023>>, <<127124, 127135>>, <<127151, 127152>>,
      <<127168, 127168>>, <<127184, 127184>>, <<127222, 127231>>, <<127406, 127461>>,
      <<127491, 127503>>, <<127548, 127551>>, <<127561, 127567>>, <<127570, 127583>>,
      <<127590, 127743>>, <<128728, 128732>>, <<128749, 128751>>, <<128765, 128767>>,
      <<128884, 128895>>, <<128985, 128991>>, <<129004, 129007>>, <<129009, 129023>>,
      <<129036, 129039>>, <<129096, 129103>>, <<129114, 129119>>, <<129160, 129167>>,
      <<129198, 129199>>, <<129202, 129279>>, <<129620, 129631>>, <<129646, 129647>>,
      <<129653, 129655>>, <<129661, 129663>>, <<129671, 129679>>, <<129709, 129711>>,
      <<129723, 129727>>, <<129734, 129743>>, <<129754, 129759>>, <<129768, 129775>>,
      <<129783, 129791>>, <<129939, 129939>>, <<129995, 130031>>, <<130042, 131071>>,
      <<173792, 173823>>, <<177977, 177983>>, <<178206, 178207>>, <<183970, 183983>>,
      <<191457, 194559>>, <<195102, 196607>>, <<201547, 917759>>, <<918000, 1114111>>
    }

IsPrintable(c) == ~\E r \in NonPrintableRanges : r[1] <= c /\ c <= r[2]

\* repr(s) of a str s: in single quotes unless s has a single and no double quote;
\* backslash, the quote, tab, newline and return are escaped with a backslash,
\* every other non-printable code point is written \xNN, \uNNNN or \UNNNNNNNN
RECURSIVE ReprBody(_, _)
ReprBody(s, quote) ==
    IF s = <<>> THEN <<>>
    ELSE LET c == Head(s)
             out == IF c = 92 \/ c = quote THEN <<92, c>>
                    ELSE IF c = 9 THEN <<92, 116>>
                    ELSE IF c = 10 THEN <<92, 110>>
                    ELSE IF c = 13 THEN <<92, 114>>
                    ELSE IF IsPrintable(c) THEN <<c>>
                    ELSE IF c < 256 THEN <<92, 120>> \o Hex(c, 2)
                    ELSE IF c < 65536 THEN <<92, 117>> \o Hex(c, 4)
                    ELSE <<92, 85>> \o Hex(c, 8)
         IN  out \o ReprBody(Tail(s), quote)

str_repr(s) ==
    LET quote == IF 39 \in Range(s) /\ 34 \notin Range(s) THEN 34 ELSE 39
    IN  <<quote>> \o ReprBody(s, quote) \o <<quote>>

\* str(v) of a dict v: '{' + ', '.join(repr(k) + ': ' + repr(x)) + '}'
RECURSIVE DictItems(_)
DictItems(entries) ==
    IF entries = <<>> THEN <<>>
    ELSE str_repr(entries[1][1]) \o <<58, 32>> \o str_repr(entries[1][2])
            \o (IF Len(entries) > 1 THEN <<44, 32>> ELSE <<>>)
            \o DictItems(Tail(entries))

StrOfDict(entries) == <<123>> \o DictItems(entries) \o <<125>>

\* the key 'description'
DescriptionKey == <<100, 101, 115, 99, 114, 105, 112, 116, 105, 111, 110>>

\* v.get('description', str(v)) of a dict v
dict_get_description(entries) ==
    IF \E i \in 1..Len(entries) : entries[i][1] = DescriptionKey
    THEN entries[CHOOSE i \in 1..Len(entries) : entries[i][1] = DescriptionKey][2]
    ELSE StrOfDict(entries)

\* MCQQuestion.clean_question / FillBlankQuestion.clean_question
clean_question(v) ==
    IF v.t = "dict" THEN dict_get_description(v.v) ELSE v.v

Failure(e) == [ok |-> FALSE, err |-> e]
Success(x) == [ok |-> TRUE, v |-> x]

\* llm.invoke followed by mcq_parser.parse: an MCQQuestion or an exception
mcq_parse(r) ==
    IF r.status = "error" THEN Failure("transport")
    ELSE IF r.status # "json" \/ r.shape # "mcq" THEN Failure("parse")
    ELSE Success([question |-> clean_question(r.question), options |-> r.options,
                  correct_answer |-> r.correct_answer])

\* llm.invoke followed by fill_blank_parser.parse
fill_parse(r) ==
    IF r.status = "error" THEN Failure("transport")
    ELSE IF r.status # "json" \/ r.shape # "fill" THEN Failure("parse")
    ELSE Success([question |-> clean_question(r.question), answer |-> r.answer])

\* the checks of generate_mcq without the membership check
mcq_validate_nomember(p) ==
    IF p.question = E \/ Len(p.options) # 4 \/ p.correct_answer = E
    THEN Failure("Invalid question format")
    ELSE Success(p)

\* the checks of generate_mcq on a parsed response
mcq_validate(p) ==
    IF p.question = E \/ Len(p.options) # 4 \/ p.correct_answer = E
    THEN Failure("Invalid question format")
    ELSE IF p.correct_answer \notin Range(p.options)
         THEN Failure("Correct answer not in options")
         ELSE Success(p)

\* the checks and the repair of generate_fill_blank on a parsed response
fill_validate(p) ==
    IF p.question = E \/ p.answer = E
    THEN Failure("Invalid question format")
    ELSE IF ~str_contains(p.question, M5)
         THEN LET repaired == [p EXCEPT !.question = str_replace(p.question, M3, M5)]
              IN  IF ~str_contains(repaired.question, M5)
                  THEN Failure("Question missing blank marker")
                  ELSE Success(repaired)
         ELSE Success(p)

\* one iteration of the retry loop of generate_mcq, up to its return or exception
mcq_attempt(r) ==
    LET p == mcq_parse(r) IN IF p.ok THEN mcq_validate(p.v) ELSE p

\* one iteration of the retry loop of generate_fill_blank
fill_attempt(r) ==
    LET p == fill_parse(r) IN IF p.ok THEN fill_validate(p.v) ELSE p

\* a retry loop of one more iteration
max_attempts_4 == 3 + 1

max_attempts == 3

(***************************************************************************)
(* QuizManager                                                             *)
(***************************************************************************)
QuestionTypes == {"Multiple Choice", "Fill in the Blank"}

\* the dict generate_questions appends for the question an acquisition returned
question_dict(qt, q) ==
    IF qt = "Multiple Choice"
    THEN [type |-> "MCQ", question |-> q.question, options |-> q.options,
          correct_answer |-> q.correct_answer]
    ELSE [type |-> "Fill in the Blank", question |-> q.question,
          correct_answer |-> q.answer]

\* the first statement of generate_questions, leaving results as they are
generate_questions_reset_keep_results(qs, uas, rs) ==
    [questions |-> <<>>, user_answers |-> <<>>, results |-> rs]

\* the first statement of generate_questions
generate_questions_reset(qs, uas, rs) ==
    [questions |-> <<>>, user_answers |-> <<>>, results |-> <<>>]

\* attempt_quiz: one value per question, in question order, appended
attempt_quiz(qs, uas, vals) == uas \o [i \in 1..Len(qs) |-> vals[i]]

\* is_correct of evaluate_quiz, comparing fill answers without lower()
is_correct_no_lower(q, user_ans) ==
    IF q.type = "MCQ"
    THEN user_ans = q.correct_answer
    ELSE str_strip(user_ans) = str_strip(q.correct_answer)

\* is_correct of evaluate_quiz
is_correct(q, user_ans) ==
    IF q.type = "MCQ"
    THEN user_ans = q.correct_answer
    ELSE str_lower(str_strip(user_ans)) = str_lower(str_strip(q.correct_answer))

\* result_dict of evaluate_quiz
result_dict(i, q, user_ans) ==
    [question_number |-> i,
     question |-> q.question,
     question_type |-> q.type,
     user_answer |-> user_ans,
     correct_answer |-> q.correct_answer,
     is_correct |-> is_correct(q, user_ans),
     options |-> IF q.type = "MCQ" THEN q.options ELSE <<>>]

\* zip(self.questions, self.user_answers) graded pair by pair
graded(qs, uas) ==
    [i \in 1..Min(Len(qs), Len(uas)) |-> result_dict(i, qs[i], uas[i])]

\* evaluate_quiz without its first statement: records are appended to the old ones
evaluate_quiz_no_reset(rs, qs, uas) == rs \o graded(qs, uas)

\* evaluate_quiz: the new value of self.results
evaluate_quiz(rs, qs, uas) == <<>> \o graded(qs, uas)

\* correct and total of the score metric of main()
score_correct(rs) == Cardinality({i \in 1..Len(rs) : rs[i].is_correct})
score_total(rs) == Len(rs)


(***************************************************************************)
(* Inputs of the model: what the capability answers and what the user      *)
(* enters.                                                                 *)
(***************************************************************************)
\* all strings over the characters cs of length 0..n
RECURSIVE StringsUpTo(_, _)
StringsUpTo(cs, n) ==
    IF n = 0 THEN {<<>>}
    ELSE LET shorter == StringsUpTo(cs, n - 1)
         IN  shorter \cup {Append(s, c) : s \in {t \in shorter : Len(t) = n - 1}, c \in cs}

\* the answers of the session model: a valid question of each kind (the fill
\* question needs the repair; its answer is p, alpha, final sigma, newline) and
\* one failing answer of each class
SessionResponses ==
    { TransportError,
      McqJson(Str(<<113>>), <<<<112>>, <<80, 32>>, <<112>>, <<80, 32>>>>, <<112>>),
      McqJson(Str(<<113>>), <<<<112>>, <<80>>, <<98>>>>, <<112>>),
      FillJson(Str(<<113, 95, 95, 95>>), <<112, 945, 962, 10>>),
      FillJson(Str(<<113>>), <<112>>) }

\* what a user can type into a text input: nothing; tab, P, capital alpha,
\* capital sigma, space; capital alpha, capital sigma
FillInputs == {<<>>, <<9, 80, 913, 931, 32>>, <<913, 931>>}

\* the question fields of the acquisition model
TextKey == <<116, 101, 120, 116>>

AcqQuestionFields ==
    {Str(s) : s \in StringsUpTo({97, 95}, MaxLen)}
        \cup {Dict(<<>>),
              Dict(<<<<DescriptionKey, <<>>>>>>),
              Dict(<<<<DescriptionKey, <<97, 95, 95, 95>>>>>>),
              Dict(<<<<TextKey, <<97>>>>, <<DescriptionKey, M5>>>>),
              Dict(<<<<TextKey, <<>>>>>>),
              Dict(<<<<TextKey, <<97, 95, 95, 95>>>>>>),
              Dict(<<<<TextKey, <<160, 95, 95, 95>>>>>>),
              Dict(<<<<TextKey, <<39, 95, 95, 95, 95, 95>>>>>>)}

AcqOptionLists ==
    {ops \in StringsUpTo({<<97>>, <<98>>}, 5) : Len(ops) >= 3}

\* the answers of the acquisition model to a request for a question of type qt:
\* both failures without an object, an object of the other shape, and objects of
\* the requested shape: every question text with a non-empty answer, a few
\* objects with an empty field, option lists of 3, 4 and 5 entries with a listed
\* and an unlisted correct answer
AcqResponses(qt) ==
    {TransportError, NotJson}
        \cup (IF qt = "Multiple Choice"
              THEN {FillJson(Str(M5), <<97>>)}
                   \cup {McqJson(Str(<<97>>), ops, ca) :
                           ops \in AcqOptionLists, ca \in {<<97>>, <<99>>}}
                   \cup {McqJson(q, <<<<97>>, <<98>>, <<97>>, <<98>>>>, ca) :
                           q \in {Str(<<>>), Str(<<97>>), Dict(<<>>),
                                  Dict(<<<<DescriptionKey, <<>>>>>>)},
                           ca \in {<<>>, <<98>>}}
              ELSE {McqJson(Str(M5), <<<<97>>, <<98>>, <<97>>, <<98>>>>, <<97>>)}
                   \cup {FillJson(q, <<97>>) : q \in AcqQuestionFields}
                   \cup {FillJson(Str(s), <<>>) : s \in {<<>>, M3, M5}})

\* the values the input rendered for question q can hold
InputValues(q) == IF q.type = "MCQ" THEN Range(q.options) ELSE FillInputs

\* one value for each input of the page, in question order
RECURSIVE InputVectors(_)
InputVectors(qs) ==
    IF qs = <<>> THEN {<<>>}
    ELSE {<<v>> \o w : v \in InputValues(Head(qs)), w \in InputVectors(Tail(qs))}

(***************************************************************************)
(* The state after main() has run once on a fresh session.                 *)
(***************************************************************************)
Init ==
    /\ questions = <<>>
    /\ user_answers = <<>>
    /\ results = <<>>
    /\ quiz_generated = FALSE
    /\ quiz_submitted = FALSE
    /\ pc = "idle"
    /\ question_type = "Multiple Choice"
    /\ remaining = 0
    /\ attempt = 0
    /\ widget = <<>>
    /\ invocations = 0
    /\ acqStatus = "none"
    /\ acqResult = NoQuestion
    /\ lastResp = NoResp
    /\ lastEvent = "load"
    /\ evals = 0
    /\ dirty = FALSE
    /\ num_questions = 0
    /\ discarded = FALSE
    /\ between = "none"

\* `if quiz_generated and questions:` of main()
Shown == quiz_generated /\ questions # <<>>

\* bound of the model, not of the program: the model follows at most MaxRenders
\* renders of one generated quiz
WithinMaxRenders == Len(user_answers) + Len(questions) <= MaxRenders * Len(questions)

\* the inputs and the Submit button are on the page the user sees
OnPage == Shown /\ lastEvent # "generate_nokey"

(***************************************************************************)
(* The Generate button, up to the first call of the capability: main()     *)
(* clears quiz_submitted, builds the generator and enters                  *)
(* generate_questions, which clears the three lists.                       *)
(***************************************************************************)
GenerateQuiz(N) ==
    /\ pc = "idle"
    /\ \E qt \in QuestionTypes, n \in N :
        LET cleared == generate_questions_reset(questions, user_answers, results)
        IN  /\ quiz_submitted' = FALSE
            /\ questions' = cleared.questions
            /\ user_answers' = cleared.user_answers
            /\ results' = cleared.results
            /\ question_type' = qt
            /\ num_questions' = n
            /\ remaining' = n
    /\ pc' = "generating"
    /\ attempt' = 0
    /\ widget' = <<>>
    /\ invocations' = 0
    /\ acqStatus' = "running"
    /\ acqResult' = NoQuestion
    /\ lastResp' = NoResp
    /\ lastEvent' = "generate"
    /\ evals' = 0
    /\ dirty' = FALSE
    /\ discarded' = (questions # <<>> \/ user_answers # <<>> \/ results # <<>>)
    /\ between' = "none"
    /\ UNCHANGED quiz_generated

(***************************************************************************)
(* The Generate button without an API key: QuestionGenerator() raises      *)
(* ValueError after quiz_submitted was cleared, and the run ends there.    *)
(***************************************************************************)
GenerateNoKey ==
    /\ pc = "idle"
    /\ quiz_submitted' = FALSE
    /\ lastEvent' = "generate_nokey"
    /\ discarded' = FALSE
    /\ between' = "none"
    /\ UNCHANGED <<questions, user_answers, results, quiz_generated, pc, question_type,
                   remaining, attempt, widget, invocations, acqStatus, acqResult,
                   lastResp, evals, dirty, num_questions>>

(***************************************************************************)
(* One call of the capability inside generate_mcq / generate_fill_blank,   *)
(* with everything the run does until the next call or until main() ends.  *)
(***************************************************************************)
Invoke(R) ==
    /\ pc = "generating"
    /\ \E r \in R :
        LET res == IF question_type = "Multiple Choice"
                   THEN mcq_attempt(r) ELSE fill_attempt(r)
        IN  /\ lastResp' = r
            /\ invocations' = (IF attempt = 0 THEN 1 ELSE invocations + 1)
            /\ IF res.ok
               THEN \* the acquisition returns; generate_questions appends
                    LET qs == Append(questions, question_dict(question_type, res.v))
                    IN  /\ questions' = qs
                        /\ acqStatus' = "returned"
                        /\ acqResult' = res.v
                        /\ attempt' = 0
                        /\ remaining' = remaining - 1
                        /\ IF remaining = 1
                           THEN \* generate_questions returns True; the quiz is rendered:
                                \* each input shows its default or the value the
                                \* session still keeps under the input's key
                                /\ pc' = "idle"
                                /\ quiz_generated' = TRUE
                                /\ widget' \in InputVectors(qs)
                                /\ user_answers' = attempt_quiz(qs, user_answers, widget')
                           ELSE /\ pc' = "generating"
                                /\ UNCHANGED <<quiz_generated, widget, user_answers>>
               ELSE IF attempt = max_attempts - 1
               THEN \* RuntimeError; generate_questions catches it and returns False
                    /\ acqStatus' = "raised"
                    /\ acqResult' = NoQuestion
                    /\ attempt' = 0
                    /\ pc' = "idle"
                    /\ quiz_generated' = FALSE
                    /\ UNCHANGED <<questions, remaining, widget, user_answers>>
               ELSE \* the exception is swallowed; the loop continues
                    /\ acqStatus' = "running"
                    /\ acqResult' = NoQuestion
                    /\ attempt' = attempt + 1
                    /\ UNCHANGED <<questions, remaining, pc, quiz_generated, widget,
                                   user_answers>>
    /\ UNCHANGED <<results, quiz_submitted, question_type, num_questions, lastEvent,
                   evals, dirty, discarded, between>>

(***************************************************************************)
(* A script run triggered by anything but the two buttons and the answer   *)
(* inputs (a sidebar widget, a download button).                           *)
(***************************************************************************)
Rerun ==
    /\ pc = "idle"
    /\ IF Shown
       THEN /\ WithinMaxRenders
            /\ user_answers' = attempt_quiz(questions, user_answers, widget)
       ELSE UNCHANGED user_answers
    /\ lastEvent' = "rerun"
    /\ discarded' = FALSE
    /\ between' = "none"
    /\ UNCHANGED <<questions, results, quiz_generated, quiz_submitted, pc, question_type,
                   remaining, attempt, widget, invocations, acqStatus, acqResult,
                   lastResp, evals, dirty, num_questions>>

(***************************************************************************)
(* The user changes the answer of question i: the script runs again.       *)
(***************************************************************************)
EditAnswer ==
    /\ pc = "idle"
    /\ OnPage
    /\ WithinMaxRenders
    /\ \E i \in 1..Len(questions) :
        \E v \in InputValues(questions[i]) \ {widget[i]} :
            widget' = [widget EXCEPT ![i] = v]
    /\ user_answers' = attempt_quiz(questions, user_answers, widget')
    /\ dirty' = TRUE
    /\ lastEvent' = "edit"
    /\ discarded' = FALSE
    /\ between' = "none"
    /\ UNCHANGED <<questions, results, quiz_generated, quiz_submitted, pc, question_type,
                   remaining, attempt, invocations, acqStatus, acqResult, lastResp,
                   evals, num_questions>>

(***************************************************************************)
(* The Submit button: the script runs again, renders the quiz, then        *)
(* evaluate_quiz runs and quiz_submitted is set.                           *)
(***************************************************************************)
SubmitQuiz ==
    /\ pc = "idle"
    /\ OnPage
    /\ WithinMaxRenders
    /\ user_answers' = attempt_quiz(questions, user_answers, widget)
    /\ results' = evaluate_quiz(results, questions, user_answers')
    /\ quiz_submitted' = TRUE
    /\ evals' = evals + 1
    /\ dirty' = FALSE
    /\ lastEvent' = "submit"
    /\ discarded' = FALSE
    /\ between' = (IF evals = 0 THEN "none"
                   ELSE IF dirty THEN "edit"
                   ELSE IF lastEvent = "rerun" THEN "rerun"
                   ELSE "nothing")
    /\ UNCHANGED <<questions, quiz_generated, pc, question_type, remaining, attempt,
                   widget, invocations, acqStatus, acqResult, lastResp, num_questions>>

Next ==
    \/ GenerateQuiz(1..MaxQuestions)
    \/ GenerateNoKey
    \/ Invoke(SessionResponses)
    \/ Rerun
    \/ EditAnswer
    \/ SubmitQuiz

Spec == Init /\ [][Next]_vars

\* one acquisition per Generate press, answered from the large set
NextAcq ==
    \/ GenerateQuiz({1})
    \/ Invoke(AcqResponses(question_type))

SpecAcq == Init /\ [][NextAcq]_vars


(***************************************************************************)
(* Vocabulary of the claims, written from their wording.                   *)
(***************************************************************************)
Fill == "Fill in the Blank"

\* s has the five-underscore marker / the three-underscore marker somewhere
HasBlank(s) == \E i \in 1..(Len(s) - 4) : SubSeq(s, i, i + 4) = M5
HasShortBlank(s) == \E i \in 1..(Len(s) - 2) : SubSeq(s, i, i + 2) = M3

\* all validation rules of a stored question of its kind
ValidQuestion(q) ==
    IF q.type = "MCQ"
    THEN /\ q.question # <<>>
         /\ Len(q.options) = 4
         /\ q.correct_answer # <<>>
         /\ \E i \in 1..4 : q.options[i] = q.correct_answer
    ELSE /\ q.question # <<>>
         /\ q.correct_answer # <<>>
         /\ HasBlank(q.question)

\* the question an acquisition returned, as the session stores it
Stored(qt, a) == question_dict(qt, a)

\* s with every maximal run of L underscores widened to L + 2 * (L \div 3): each
\* of its L \div 3 disjoint triples has become five underscores
RunLength(s, i) ==
    IF \E j \in i..Len(s) : s[j] # 95
    THEN (CHOOSE j \in i..Len(s) : s[j] # 95 /\ \A k \in i..(j - 1) : s[k] = 95) - i
    ELSE Len(s) - i + 1

RECURSIVE WidenFrom(_, _)
WidenFrom(s, i) ==
    IF i > Len(s) THEN <<>>
    ELSE IF s[i] = 95
         THEN LET L == RunLength(s, i)
              IN  [k \in 1..(L + 2 * (L \div 3)) |-> 95] \o WidenFrom(s, i + L)
         ELSE <<s[i]>> \o WidenFrom(s, i + 1)

WidenRuns(s) == WidenFrom(s, 1)

\* s without surrounding blanks (space, tab, newline), capital Latin and Greek
\* letters turned into small ones; a capital sigma becomes the final small sigma
\* where it ends a word and the medial one elsewhere
Blank(c) == c \in {32, 9, 10}
FirstInk(s) == CHOOSE i \in 1..Len(s) : ~Blank(s[i]) /\ \A k \in 1..(i - 1) : Blank(s[k])
LastInk(s) == CHOOSE i \in 1..Len(s) : ~Blank(s[i]) /\ \A k \in (i + 1)..Len(s) : Blank(s[k])
Letter(c) == c \in (65..90) \cup (97..122) \cup (913..929) \cup (931..969)
EndsWord(t, i) ==
    /\ i > 1 /\ Letter(t[i - 1])
    /\ i = Len(t) \/ ~Letter(t[i + 1])
Small(t, i) ==
    IF t[i] \in (65..90) \cup (913..929) THEN t[i] + 32
    ELSE IF t[i] = 931 THEN (IF EndsWord(t, i) THEN 962 ELSE 963)
    ELSE t[i]
Normalised(s) ==
    IF \A i \in 1..Len(s) : Blank(s[i]) THEN <<>>
    ELSE LET t == SubSeq(s, FirstInk(s), LastInk(s))
         IN  [i \in 1..Len(t) |-> Small(t, i)]

\* the grading rule of the two kinds
GradingRule(q, submission) ==
    IF q.type = "MCQ"
    THEN submission = q.correct_answer
    ELSE Normalised(submission) = Normalised(q.correct_answer)

\* the question text the last answer of the capability carried, once parsed
LastText == clean_question(lastResp.question)

\* the last answer is a parsed fill object with non-empty question and answer
LastIsFillObject ==
    /\ question_type = Fill
    /\ lastResp.status = "json"
    /\ lastResp.shape = "fill"
    /\ LastText # <<>>
    /\ lastResp.answer # <<>>

(***************************************************************************)
(* C1  One acquisition call invokes the capability at most 3 times; after  *)
(* a failed attempt 1 or 2 the call is still running, with the next        *)
(* attempt due; a call that returned did so after k in 1..3 invocations,   *)
(* the first k-1 of which failed, and returned the question of its last    *)
(* invocation; a call that raised did so after exactly 3 invocations.      *)
(***************************************************************************)
C1_RetryBound ==
    /\ invocations <= 3
    /\ acqStatus = "running" =>
          /\ pc = "generating"
          /\ invocations < 3
          /\ attempt = invocations
          /\ acqResult = NoQuestion
    /\ acqStatus = "returned" =>
          /\ invocations \in 1..3
          /\ lastResp.status = "json"
          /\ acqResult # NoQuestion
          /\ acqResult.question \in {LastText, str_replace(LastText, M3, M5)}
          /\ questions # <<>>
          /\ questions[Len(questions)] = Stored(question_type, acqResult)
    /\ acqStatus = "raised" =>
          /\ invocations = 3
          /\ pc = "idle"
          /\ acqResult = NoQuestion
          /\ ~quiz_generated

\* the third attempt was the first to pass
C1_Witness == acqStatus = "returned" /\ invocations = 3

(***************************************************************************)
(* C2  After generate_questions has returned False because an acquisition  *)
(* raised its terminal error, the question list is empty.                  *)
(***************************************************************************)
C2_NoPartialList == acqStatus = "raised" => Len(questions) = 0

(***************************************************************************)
(* C3  When evaluate_quiz has executed, the submission sequence has the    *)
(* length of the question sequence; with a differing count nothing was     *)
(* graded.                                                                 *)
(***************************************************************************)
C3_EqualLengthsAtGrade ==
    lastEvent = "submit" =>
        /\ Len(user_answers) = Len(questions)
        /\ (Len(user_answers) # Len(questions) => results = <<>>)

(***************************************************************************)
(* C4  After the grade action there is one Answer Record per question and  *)
(* record i carries the value input i held when Submit was pressed.        *)
(***************************************************************************)
C4_LatestAnswersGraded ==
    lastEvent = "submit" =>
        /\ Len(results) = Len(questions)
        /\ \A i \in 1..Len(results) : results[i].user_answer = widget[i]

(***************************************************************************)
(* C5  Every question an acquisition returned, and every question in the   *)
(* session's list, satisfies all validation rules of its kind.             *)
(***************************************************************************)
C5_OnlyValidQuestions ==
    /\ \A i \in 1..Len(questions) : ValidQuestion(questions[i])
    /\ acqStatus = "returned" => ValidQuestion(Stored(question_type, acqResult))

\* a question was returned after the capability's earlier answer was rejected
C5_Witness ==
    /\ acqStatus = "returned"
    /\ invocations >= 2
    /\ questions # <<>>
    /\ questions[1].type = "MCQ"

(***************************************************************************)
(* C6  Repair law of the fill-in-the-blank acquisition, for a parsed       *)
(* answer with non-empty question and answer: a text with the long marker  *)
(* is returned unchanged; a text with the short marker only is returned    *)
(* with each disjoint short marker widened once, and then has the long     *)
(* marker; a text with neither is a failed attempt that used up one of the *)
(* three and returned nothing.                                             *)
(***************************************************************************)
C6_RepairLaw ==
    LastIsFillObject =>
        /\ HasBlank(LastText) =>
              /\ acqStatus = "returned"
              /\ acqResult.question = LastText
        /\ (HasShortBlank(LastText) /\ ~HasBlank(LastText)) =>
              /\ acqStatus = "returned"
              /\ acqResult.question = WidenRuns(LastText)
              /\ HasBlank(acqResult.question)
        /\ ~HasShortBlank(LastText) =>
              /\ acqStatus \in {"running", "raised"}
              /\ acqResult = NoQuestion
              /\ invocations >= 1
              /\ acqStatus = "running" => attempt = invocations
              /\ acqStatus = "raised" => invocations = 3

\* a text with two short markers and no long one was returned repaired
C6_Witness ==
    /\ LastIsFillObject
    /\ acqStatus = "returned"
    /\ ~HasBlank(LastText)
    /\ \E i \in 1..Len(LastText) :
          /\ LastText[i] # 95
          /\ HasShortBlank(SubSeq(LastText, 1, i))
          /\ HasShortBlank(SubSeq(LastText, i, Len(LastText)))

(***************************************************************************)
(* C7  Every Answer Record's is_correct follows the grading rule of its    *)
(* question's kind for the submission it records, and the reported score   *)
(* is the number of graded pairs that satisfy the rule.                    *)
(***************************************************************************)
C7_GradingRule ==
    /\ Len(results) <= Len(questions)
    /\ \A i \in 1..Len(results) :
          /\ results[i].question_type = questions[i].type
          /\ results[i].correct_answer = questions[i].correct_answer
          /\ results[i].is_correct = GradingRule(questions[i], results[i].user_answer)
    /\ score_total(results) = Len(results)
    /\ score_correct(results) =
          Cardinality({i \in 1..Len(results) :
                          GradingRule(questions[i], results[i].user_answer)})

\* two fill questions graded: one right up to case and blanks, one wrong
C7_Witness ==
    /\ quiz_submitted
    /\ Len(results) = 2
    /\ results[1].question_type = Fill
    /\ results[1].user_answer # results[1].correct_answer
    /\ results[1].is_correct
    /\ ~results[2].is_correct
    /\ score_correct(results) = 1

(***************************************************************************)
(* C8  A grade action on a session already graded, with no answer edited   *)
(* since that grading, leaves the Answer Records as they were: they are    *)
(* replaced by an identical sequence, one record per question.             *)
(***************************************************************************)
C8_GradingIdempotent ==
    [][(evals' = evals + 1 /\ evals >= 1 /\ ~dirty) =>
          (results' = results /\ Len(results') = Len(questions'))]_vars

\* graded twice with no answer edited and a page re-run between the two
\* gradings, which collected the same inputs once more: the four renders were
\* the first one, a Submit run, the re-run and the second Submit run
C8_Witness ==
    /\ evals = 2
    /\ lastEvent = "submit"
    /\ between = "rerun"
    /\ Len(user_answers) = 4 * Len(questions)
    /\ Len(results) = Len(questions)
    /\ \E i \in 1..Len(results) : results[i].is_correct

(***************************************************************************)
(* C9  From a Generate press that invokes generate_questions until the     *)
(* next event, whether the generation is running, has succeeded or has     *)
(* failed: every question in the list was acquired by this generation, the *)
(* only submissions are those of the one render of the new quiz, there is  *)
(* no Answer Record, and quiz_submitted is false.                          *)
(***************************************************************************)
C9_GenerationDiscardsAll ==
    lastEvent = "generate" =>
        /\ ~quiz_submitted
        /\ results = <<>>
        /\ Len(questions) = num_questions - remaining
        /\ \/ user_answers = <<>>
           \/ pc = "idle" /\ quiz_generated /\ remaining = 0 /\ user_answers = widget

\* a generation that started from a session holding a quiz has ended
C9_Witness ==
    /\ lastEvent = "generate"
    /\ discarded
    /\ pc = "idle"

(***************************************************************************)
(* C10  For one generated question list evaluate_quiz runs at most once.   *)
(***************************************************************************)
C10_GradedOnce == evals <= 1

====
